---- MODULE Spec2Model ----
(***************************************************************************)
(* Model of src/merkle_tree/main.go: the concurrent file-hashing scheduler *)
(* (hashFiles, hashFilesWithTimeout, hashFile) and the Merkle tree builder *)
(* (NewMerkleNode, buildMerkleTree), as called from main, with main's two  *)
(* ways of collecting paths (hashDirectFilePaths, hashFilesInDirectory);   *)
(* and of the Bloom filter of src/bloom-filter/bloomfilter.go.             *)
(***************************************************************************)
EXTENDS Integers, Sequences, FiniteSets, TLC

VARIABLES
    files,            \* hashFiles' slice of paths: as the caller wrote it, then sorted in place
    mpc,              \* position of the calling goroutine (main, hashFiles, the aggregation loop)
    jobs,             \* buffered channel jobs: its queue
    jobsClosed,
    results,          \* buffered channel results: its queue of HashResult
    resultsClosed,
    errors,           \* buffered channel errors: its queue
    errorsClosed,
    ctxErr,           \* ctx.Err(): the context is done iff this is not "nil"
    wpc,              \* per worker goroutine: its position
    wjob,             \* per worker: the job it received
    wout,             \* per worker: what hashFile returned (hash or err)
    wread,            \* per worker: the bytes hash.Write has taken so far in the chunk loop
    dpc,              \* dispatcher goroutine: its position
    di,               \* dispatcher goroutine: index of the file its range loop is at
    cpc,              \* channel-closing goroutine: its position
    hashedFiles,      \* aggregation loop: []HashResult collected so far
    receivedResults,  \* aggregation loop: counter
    data,             \* main's data: the digests returned to it
    err,              \* main's err: the error returned to it
    builds,           \* the calls of buildMerkleTree so far: input, clock reading, returned tree
    hashFileErrs,     \* history: the errors hashFile calls have returned in this run
    args,             \* main's args: the command line after the flags
    bf,               \* the BloomFilter: bitSet, hashFunctions (their seeds), hashCount
    bfh,              \* history of the filter: as constructed, items added, last call
    cpus              \* runtime.NumCPU() on the host of this run

vars == << files, mpc, jobs, jobsClosed, results, resultsClosed, errors,
           errorsClosed, ctxErr, wpc, wjob, wout, wread, dpc, di, cpc, hashedFiles,
           receivedResults, data, err, builds, hashFileErrs, args, bf, bfh, cpus >>

\* what the scheduler never touches: the command line, the Bloom filter, the host
sideVars == << args, bf, bfh, cpus >>

schedVars == << files, mpc, jobs, jobsClosed, results, resultsClosed, errors,
                errorsClosed, ctxErr, wpc, wjob, wout, wread, dpc, di, cpc, hashedFiles,
                receivedResults, err, hashFileErrs >>

----------------------------------------------------------------------------
(* Bounds of the model *)

MaxFiles == 2       \* longest path list handed to hashFiles
NumCPU == 2         \* largest runtime.NumCPU() of a host
MaxLeaves == 5      \* longest leaf list handed to buildMerkleTree directly
MaxBuilds == 2      \* buildMerkleTree calls in one behaviour of the builder
MaxClock == 2       \* distinct readings of time.Now()
ReadRuns == 2       \* turns of hashFile's chunk loop that return data, per streamed file
MaxArgs == 2        \* longest command line given to main
MaxBits == 3        \* largest len(bitSet) of a Bloom filter
MaxHashes == 2      \* largest hashCount
MaxSeed == 1        \* largest seed drawn for a hash function
MaxItem == 2        \* the items are the strings numbered 1..MaxItem

----------------------------------------------------------------------------
(* Bytes and SHA-256.  A byte string is a sequence of blocks.  A block is    *)
(* either a piece of content, Byte(c), or the 32 bytes of one digest, which  *)
(* remember the byte string they were computed from: the hash is collision   *)
(* free and a digest is never equal to its input.                            *)

Byte(n) == [t |-> "byte", n |-> n, v |-> << >>]

Sha256(bytes) == << [t |-> "sha256", n |-> 0, v |-> bytes] >>

\* encoding/hex.EncodeToString: every block becomes its hexadecimal text
HexEncodeToString(bytes) ==
    [i \in 1..Len(bytes) |-> [t |-> "hex", n |-> 0, v |-> << bytes[i] >>]]

Min(a, b) == IF a <= b THEN a ELSE b

BoundedSeq(S, n) == UNION { [1..k -> S] : k \in 0..n }

----------------------------------------------------------------------------
(* Merkle tree builder.  *MerkleNode values are positions in the heap, the  *)
(* sequence of the nodes allocated so far; 0 is the nil pointer.  Slices    *)
(* are indexed from 0, as in the source.                                    *)

NilPtr == 0

NilBytes == << >>

At(slice, i) == slice[i + 1]

\* an order on byte strings, used by the mutant below only
RECURSIVE Rank(_)
Rank(bytes) ==
    IF bytes = << >> THEN 0
    ELSE (IF Head(bytes).t = "byte" THEN Head(bytes).n ELSE 1 + Rank(Head(bytes).v))
            + 3 * Rank(Tail(bytes))

\* mutant of NodeHashInput: the two child digests are hashed in a canonical
\* order, so a parent does not tell left from right
NodeHashInputUnordered(heap, left, right, d) ==
    LET l == IF left # NilPtr THEN heap[left].Hash ELSE << >>
        r == IF right # NilPtr THEN heap[right].Hash ELSE << >>
    IN  (IF Rank(l) <= Rank(r) THEN l \o r ELSE r \o l)
            \o (IF d # NilBytes THEN d ELSE << >>)

\* what NewMerkleNode feeds to the hash, in order
NodeHashInput(heap, left, right, d) ==
    (IF left # NilPtr THEN heap[left].Hash ELSE << >>)
        \o (IF right # NilPtr THEN heap[right].Hash ELSE << >>)
        \o (IF d # NilBytes THEN d ELSE << >>)

\* NewMerkleNode: the heap with the new node allocated at its end
NewMerkleNode(heap, left, right, d) ==
    Append(heap, [Left |-> left, Right |-> right,
                  Hash |-> Sha256(NodeHashInput(heap, left, right, d))])

\* the first loop of buildMerkleTree: one leaf node per element of data
RECURSIVE LeafNodes(_, _)
LeafNodes(d, k) ==
    IF k = 0 THEN << >>
    ELSE NewMerkleNode(LeafNodes(d, k - 1), NilPtr, NilPtr, d[k])

\* mutant of PadLeaves: the odd leaf level is left as it is
PadLeavesNever(nodes) == nodes

\* if len(nodes)%2 != 0 { nodes = append(nodes, nodes[len(nodes)-1]) }
PadLeaves(nodes) ==
    IF Len(nodes) % 2 # 0 THEN Append(nodes, At(nodes, Len(nodes) - 1)) ELSE nodes

\* mutant of PadLevel: an odd level above the leaves is left as it is
PadLevelNever(newNodes) == newNodes

\* if len(newNodes)%2 != 0 && len(newNodes) > 1 { newNodes = append(newNodes, last) }
PadLevel(newNodes) ==
    IF Len(newNodes) % 2 # 0 /\ Len(newNodes) > 1
    THEN Append(newNodes, At(newNodes, Len(newNodes) - 1))
    ELSE newNodes

\* mutant of PairArgs: the parent is given its left child only
PairArgsLeftOnly(nodes, i) == [left |-> At(nodes, i), right |-> NilPtr]

\* mutant of PairArgs: the conventional order, first = left
PairArgsInOrder(nodes, i) == [left |-> At(nodes, i - 1), right |-> At(nodes, i)]

\* the (left, right) arguments of NewMerkleNode at pairing index i
PairArgs(nodes, i) == [left |-> At(nodes, i), right |-> At(nodes, i - 1)]

\* for i := 1; i < len(nodes); i += 2 { newNodes = append(newNodes, NewMerkleNode(..)) }
RECURSIVE PairLoop(_, _, _)
PairLoop(st, nodes, i) ==
    IF i < Len(nodes)
    THEN LET a == PairArgs(nodes, i)
             h == NewMerkleNode(st.heap, a.left, a.right, NilBytes)
         IN  PairLoop([heap |-> h, newNodes |-> Append(st.newNodes, Len(h))], nodes, i + 2)
    ELSE st

\* for len(nodes) > 1 { ... }; levels records nodes at every test of the condition
RECURSIVE BuildLoop(_, _, _)
BuildLoop(heap, nodes, levels) ==
    IF Len(nodes) > 1
    THEN LET st == PairLoop([heap |-> heap, newNodes |-> << >>], nodes, 1)
         IN  BuildLoop(st.heap, PadLevel(st.newNodes), Append(levels, nodes))
    ELSE [heap |-> heap, nodes |-> nodes, levels |-> Append(levels, nodes)]

NilTree ==
    [Root |-> NilPtr, CreatedAt |-> 0, FileCount |-> 0, RootHash |-> << >>,
     heap |-> << >>, levels |-> << >>]

\* mutant of NewMerkleTree: the creation time is mixed into the root digest
NewMerkleTreeStamped(r, d, now) ==
    LET h == Sha256(r.heap[At(r.nodes, 0)].Hash \o << Byte(now) >>) IN
    [Root |-> At(r.nodes, 0), CreatedAt |-> now, FileCount |-> Len(d),
     RootHash |-> HexEncodeToString(h),
     heap |-> [r.heap EXCEPT ![At(r.nodes, 0)].Hash = h], levels |-> r.levels]

\* tree := &MerkleTree{Root: nodes[0], CreatedAt: time.Now(), FileCount: len(data)}
\* and tree.RootHash = hex.EncodeToString(tree.Root.Hash)
NewMerkleTree(r, d, now) ==
    [Root |-> At(r.nodes, 0), CreatedAt |-> now, FileCount |-> Len(d),
     RootHash |-> IF At(r.nodes, 0) # NilPtr
                  THEN HexEncodeToString(r.heap[At(r.nodes, 0)].Hash)
                  ELSE << >>,
     heap |-> r.heap, levels |-> r.levels]

\* mutant of buildMerkleTree: an empty input is given one empty leaf
buildMerkleTreeOfOneEmptyLeaf(d, now) ==
    LET e == IF d = << >> THEN << NilBytes >> ELSE d
        leaves == LeafNodes(e, Len(e))
        r == BuildLoop(leaves, PadLeaves([i \in 1..Len(e) |-> i]), << >>)
    IN  NewMerkleTree(r, d, now)

buildMerkleTree(d, now) ==
    LET leaves == LeafNodes(d, Len(d))
        r == BuildLoop(leaves, PadLeaves([i \in 1..Len(d) |-> i]), << >>)
    IN  IF Len(r.nodes) = 0 THEN NilTree ELSE NewMerkleTree(r, d, now)

----------------------------------------------------------------------------
(* Paths, errors and the file system the run sees *)

\* a path is a string: the sequence of its characters' codes, in the order of
\* their bytes: "/" is 0, "a" 1, "b" 2, "c" 3, "d" 4, "e" 5, "s" 6, "u" 7
PathA == << 1 >>
PathAB == << 1, 2 >>
PathB == << 2 >>
PathC == << 3 >>
PathD == << 4 >>
PathE == << 5 >>
PathS == << 6 >>

Paths == { PathA, PathAB, PathB, PathC }

\* os.PathSeparator, and the working directory of the process: "/"
Separator == << 0 >>

Getwd == Separator

\* filepath.Clean: runs of separators become one, a trailing separator goes
\* (no name here has a "." or ".." element)
RECURSIVE CollapseSeparators(_)
CollapseSeparators(path) ==
    IF Len(path) < 2 THEN path
    ELSE IF << path[1] >> = Separator /\ << path[2] >> = Separator
         THEN CollapseSeparators(Tail(path))
         ELSE << path[1] >> \o CollapseSeparators(Tail(path))

Clean(path) ==
    LET c == CollapseSeparators(path) IN
    IF Len(c) >= 2 /\ << c[Len(c)] >> = Separator THEN SubSeq(c, 1, Len(c) - 1) ELSE c

\* filepath.Join(dir, name)
Join(dir, name) == Clean(dir \o Separator \o name)

\* filepath.Abs: an absolute path is cleaned, another is joined to the working
\* directory (os.Getwd does not fail here)
Abs(path) ==
    IF path # << >> /\ << path[1] >> = Separator THEN Clean(path) ELSE Join(Getwd, path)

\* Go's < on strings: byte-wise lexicographic
StrLess(a, b) ==
    \E k \in 1..(Min(Len(a), Len(b)) + 1) :
        /\ \A j \in 1..(k - 1) : a[j] = b[j]
        /\ \/ k > Len(a) /\ k <= Len(b)
           \/ k <= Len(a) /\ k <= Len(b) /\ a[k] < b[k]

Error(kind, path) == [kind |-> kind, path |-> path]

NilErr == Error("nil", << >>)

Canceled == Error("context canceled", << >>)

DeadlineExceeded == Error("context deadline exceeded", << >>)

ErrNoFiles == Error("no files provided", << >>)

ErrNotAllProcessed == Error("not all files processed successfully", << >>)

ErrNotExist(path) == Error("open: no such file or directory", path)

ErrIsDir == Error("is a directory", << >>)

SmallLimit == 5242880      \* 5*1024*1024
LargeLimit == 52428800     \* 50*1024*1024
BufferSize == 1048576      \* 1024*1024

RegularFile(size) == [exists |-> TRUE, isDir |-> FALSE, size |-> size]

Directory == [exists |-> TRUE, isDir |-> TRUE, size |-> 0]

\* what os.Open and os.Stat find at a path.  Under "/": "a" is a 1-byte file,
\* "ab" a file one byte over the 5 MiB threshold, "b" does not exist, "c" is a
\* file one byte over 50 MiB; "d" is a directory with the file "a" and the
\* directory "s", which has the file "a"; "e" is a directory with the file "a"
\* and the directory "u", which this process may not read; "s" is an empty
\* directory
Stat(path) ==
    LET p == Abs(path) IN
    CASE p = << 0, 1 >>             -> RegularFile(1)
      [] p = << 0, 1, 2 >>          -> RegularFile(SmallLimit + 1)
      [] p = << 0, 3 >>             -> RegularFile(LargeLimit + 1)
      [] p = << 0, 4 >>             -> Directory
      [] p = << 0, 4, 0, 1 >>       -> RegularFile(1)
      [] p = << 0, 4, 0, 6 >>       -> Directory
      [] p = << 0, 4, 0, 6, 0, 1 >> -> RegularFile(1)
      [] p = << 0, 5 >>             -> Directory
      [] p = << 0, 5, 0, 1 >>       -> RegularFile(1)
      [] p = << 0, 5, 0, 7 >>       -> Directory
      [] p = << 0, 6 >>             -> Directory
      [] OTHER                      -> [exists |-> FALSE, isDir |-> FALSE, size |-> 0]

ErrPermission(path) == Error("open: permission denied", path)

ErrNotDir(path) == Error("readdirent: not a directory", path)

\* os.ReadDir: the names of the entries, sorted by name, or the error
ReadDir(path) ==
    LET p == Abs(path) IN
    CASE p = << 0, 4 >>       -> [names |-> << << 1 >>, << 6 >> >>, err |-> NilErr]
      [] p = << 0, 4, 0, 6 >> -> [names |-> << << 1 >> >>, err |-> NilErr]
      [] p = << 0, 5 >>       -> [names |-> << << 1 >>, << 7 >> >>, err |-> NilErr]
      [] p = << 0, 5, 0, 7 >> -> [names |-> << >>, err |-> ErrPermission(path)]
      [] p = << 0, 6 >>       -> [names |-> << >>, err |-> NilErr]
      [] Stat(p).exists /\ ~Stat(p).isDir
                              -> [names |-> << >>, err |-> ErrNotDir(path)]
      [] OTHER                -> [names |-> << >>, err |-> ErrNotExist(path)]

\* a number for each path: the base-9 numeral of its characters
RECURSIVE PathCode(_)
PathCode(path) == IF path = << >> THEN 0 ELSE (path[1] + 1) + 9 * PathCode(Tail(path))

\* number of buffers data.Read fills to read the file to its end
NumBuffers(path) == (Stat(path).size + BufferSize - 1) \div BufferSize

\* the file's content in blocks.  A block is a run of consecutive buffer-fulls
\* that the chunk loop reads without seeing the context done: the model takes
\* such a run as one turn of the loop, at most ReadRuns turns per file
NumChunks(path) == Min(NumBuffers(path), ReadRuns)

Content(path) == [i \in 1..NumChunks(path) |-> Byte(10 * PathCode(Abs(path)) + i)]

\* hashFile up to the point where it returns or enters the chunk loop
\* (ctx check, os.Open, Stat, IsDir, the size classes)
HashFileEntry(ctx, path) ==
    LET st == Stat(path) IN
    CASE ctx # NilErr          -> [hash |-> << >>, err |-> ctx, loop |-> FALSE]
      [] ~st.exists            -> [hash |-> << >>, err |-> ErrNotExist(path), loop |-> FALSE]
      [] st.isDir              -> [hash |-> << >>, err |-> ErrIsDir, loop |-> FALSE]
      [] st.size <= SmallLimit -> [hash |-> Sha256(Content(path)), err |-> NilErr, loop |-> FALSE]
      [] st.size <= LargeLimit -> [hash |-> << >>, err |-> NilErr, loop |-> TRUE]
      [] OTHER                 -> [hash |-> Sha256(<< >>), err |-> NilErr, loop |-> FALSE]

\* sort.Strings(files)
RECURSIVE InsertString(_, _)
InsertString(x, s) ==
    IF s = << >> THEN << x >>
    ELSE IF StrLess(x, Head(s)) THEN << x >> \o s
    ELSE << Head(s) >> \o InsertString(x, Tail(s))

RECURSIVE SortStrings(_)
SortStrings(s) ==
    IF s = << >> THEN << >> ELSE InsertString(s[Len(s)], SortStrings(SubSeq(s, 1, Len(s) - 1)))

\* sort.Slice(hashedFiles, func(i, j) { return hashedFiles[i].File < hashedFiles[j].File })
RECURSIVE InsertResult(_, _)
InsertResult(x, s) ==
    IF s = << >> THEN << x >>
    ELSE IF StrLess(x.File, Head(s).File) THEN << x >> \o s
    ELSE << Head(s) >> \o InsertResult(x, Tail(s))

\* mutant of SortByFile: the results stay in the order they were received
SortByFileSkipped(s) == s

RECURSIVE SortByFile(_)
SortByFile(s) ==
    IF s = << >> THEN << >> ELSE InsertResult(s[Len(s)], SortByFile(SubSeq(s, 1, Len(s) - 1)))

\* for _, file := range hashedFiles { data = append(data, file.Hash) }
HashesOf(hf) == [i \in 1..Len(hf) |-> hf[i].Hash]

\* mutant of NumWorkers: one worker per file
NumWorkersPerFile(fs) == Len(fs)

\* workers := min(len(files), runtime.NumCPU())
NumWorkers(fs) == Min(Len(fs), cpus)

Workers == DOMAIN wpc

\* cancel(): the first cancellation or expiry decides ctx.Err()
Cancel(ctx) == IF ctx = NilErr THEN Canceled ELSE ctx

----------------------------------------------------------------------------
(* The two ways main collects the paths it hands to hashFiles *)

ErrStat(path) == Error("stat: no such file or directory", path)

ErrDirectories == Error("cannot hash directories along with filepaths", << >>)

\* mutant of CheckDirectPath: IsDir is not looked at
CheckDirectPathAnyKind(filename) ==
    IF ~Stat(filename).exists THEN ErrStat(filename) ELSE NilErr

\* one turn of hashDirectFilePaths' loop, up to the append: the error it returns
\* with, or nil
CheckDirectPath(filename) ==
    LET fileInfo == Stat(filename) IN
    IF ~fileInfo.exists THEN ErrStat(filename)
    ELSE IF fileInfo.isDir THEN ErrDirectories
    ELSE NilErr

\* hashDirectFilePaths up to its call of hashFiles: directFilePaths, or the error
RECURSIVE DirectFilePaths(_, _, _)
DirectFilePaths(filenames, i, directFilePaths) ==
    IF i > Len(filenames) THEN [files |-> directFilePaths, err |-> NilErr]
    ELSE LET e == CheckDirectPath(filenames[i]) IN
         IF e # NilErr THEN [files |-> << >>, err |-> e]
         ELSE DirectFilePaths(filenames, i + 1, Append(directFilePaths, Abs(filenames[i])))

\* mutant of AppendSubFiles: a sub-directory that cannot be listed is skipped
AppendSubFilesLenient(filenames, sub) ==
    [files |-> filenames \o sub.files, err |-> NilErr]

\* subFiles, err := getAllFilesInDirectory(fullPath); if err != nil { return nil, err };
\* filenames = append(filenames, subFiles...)
AppendSubFiles(filenames, sub) ==
    IF sub.err # NilErr THEN [files |-> << >>, err |-> sub.err]
    ELSE [files |-> filenames \o sub.files, err |-> NilErr]

RECURSIVE getAllFilesInDirectory(_)
RECURSIVE EntriesLoop(_, _, _, _)

\* for _, file := range files { ... } of getAllFilesInDirectory, from entry i on
EntriesLoop(directory, names, i, filenames) ==
    IF i > Len(names) THEN [files |-> filenames, err |-> NilErr]
    ELSE LET fullPath == Abs(Clean(Join(directory, names[i]))) IN
         IF Stat(fullPath).isDir
         THEN LET r == AppendSubFiles(filenames, getAllFilesInDirectory(fullPath)) IN
              IF r.err # NilErr THEN r ELSE EntriesLoop(directory, names, i + 1, r.files)
         ELSE EntriesLoop(directory, names, i + 1, Append(filenames, fullPath))

getAllFilesInDirectory(directory) ==
    LET rd == ReadDir(directory) IN
    IF rd.err # NilErr THEN [files |-> << >>, err |-> rd.err]
    ELSE EntriesLoop(directory, rd.names, 1, << >>)

\* var bf *BloomFilter before any NewBloomFilter call
NoFilter == [bitSet |-> << >>, hashFunctions |-> << >>, hashCount |-> 0]

\* history of a filter: the filter as constructed, the items added since the
\* last Clear, the items added before it, whether Clear was the last call that
\* wrote, and the last Contains call (asked = 0: none) with its answer
NewHistory(f) ==
    [made |-> f, added |-> {}, before |-> {}, cleared |-> FALSE,
     asked |-> 0, answer |-> FALSE]

NoHistory == NewHistory(NoFilter)

----------------------------------------------------------------------------
(* hashFiles and the set-up of hashFilesWithTimeout *)

Init ==
    /\ files \in BoundedSeq(Paths, MaxFiles)
    /\ mpc = "hashFiles"
    /\ jobs = << >> /\ jobsClosed = FALSE
    /\ results = << >> /\ resultsClosed = FALSE
    /\ errors = << >> /\ errorsClosed = FALSE
    /\ ctxErr = NilErr
    /\ wpc = << >> /\ wjob = << >> /\ wout = << >> /\ wread = << >>
    /\ dpc = "idle" /\ di = 0
    /\ cpc = "idle"
    /\ hashedFiles = << >> /\ receivedResults = 0
    /\ data = << >> /\ err = NilErr
    /\ builds = << >>
    /\ hashFileErrs = {}
    /\ args = << >>
    /\ bf = NoFilter /\ bfh = NoHistory
    /\ cpus \in 1..NumCPU

goVars == << jobs, jobsClosed, results, resultsClosed, errors, errorsClosed,
             wpc, wjob, wout, wread, dpc, di, cpc, hashFileErrs >>

\* main with data, err just returned to it: it reports the error and returns, or
\* calls buildMerkleTree(data), time.Now() reading t
MainContinue(d, e) ==
    /\ data' = d
    /\ err' = e
    /\ mpc' = "done"
    /\ IF e # NilErr
       THEN UNCHANGED builds
       ELSE \E t \in 1..MaxClock :
              builds' = Append(builds, [in |-> d, at |-> t, out |-> buildMerkleTree(d, t)])

\* hashFiles with len(files) == 0
HashFilesEmpty ==
    /\ mpc = "hashFiles"
    /\ Len(files) = 0
    /\ MainContinue(<< >>, ErrNoFiles)
    /\ UNCHANGED << files, goVars, ctxErr, hashedFiles, receivedResults, sideVars >>

\* hashFiles sorts and calls hashFilesWithTimeout, which makes the channels and
\* the context and starts the workers, the dispatcher and the closer
HashFilesStart ==
    /\ mpc = "hashFiles"
    /\ Len(files) # 0
    /\ files' = SortStrings(files)
    /\ wpc' = [w \in 1..NumWorkers(files') |-> "select"]
    /\ wjob' = [w \in 1..NumWorkers(files') |-> << >>]
    /\ wout' = [w \in 1..NumWorkers(files') |-> [hash |-> << >>, err |-> NilErr]]
    /\ wread' = [w \in 1..NumWorkers(files') |-> << >>]
    /\ dpc' = "range" /\ di' = 0
    /\ cpc' = "wait"
    /\ hashedFiles' = << >> /\ receivedResults' = 0
    /\ mpc' = "aggregate"
    /\ UNCHANGED << jobs, jobsClosed, results, resultsClosed, errors,
                    errorsClosed, ctxErr, data, err, builds, hashFileErrs, sideVars >>

\* the deadline of context.WithTimeout passes
Timeout ==
    /\ mpc = "aggregate"
    /\ ctxErr = NilErr
    /\ ctxErr' = DeadlineExceeded
    /\ UNCHANGED << files, mpc, goVars, hashedFiles, receivedResults,
                    data, err, builds, sideVars >>

----------------------------------------------------------------------------
(* The worker goroutines *)

mainVars == << files, mpc, hashedFiles, receivedResults, data, err, builds, sideVars >>

\* mutant of WorkerTakeJob: the job is read but stays in the queue
WorkerPeekJob(w) ==
    /\ wpc[w] = "select"
    /\ jobs # << >>
    /\ wjob' = [wjob EXCEPT ![w] = Head(jobs)]
    /\ wpc' = [wpc EXCEPT ![w] = "hashFile"]
    /\ UNCHANGED << mainVars, ctxErr, jobs, jobsClosed, results, resultsClosed, errors,
                    errorsClosed, wout, wread, dpc, di, cpc, hashFileErrs >>

\* case job, ok := <-jobs, with ok
WorkerTakeJob(w) ==
    /\ wpc[w] = "select"
    /\ jobs # << >>
    /\ wjob' = [wjob EXCEPT ![w] = Head(jobs)]
    /\ jobs' = Tail(jobs)
    /\ wpc' = [wpc EXCEPT ![w] = "hashFile"]
    /\ UNCHANGED << mainVars, ctxErr, jobsClosed, results, resultsClosed, errors,
                    errorsClosed, wout, wread, dpc, di, cpc, hashFileErrs >>

\* case job, ok := <-jobs, with !ok: the channel is closed and drained
WorkerJobsClosed(w) ==
    /\ wpc[w] = "select"
    /\ jobs = << >> /\ jobsClosed
    /\ wpc' = [wpc EXCEPT ![w] = "done"]
    /\ UNCHANGED << mainVars, ctxErr, jobs, jobsClosed, results, resultsClosed, errors,
                    errorsClosed, wjob, wout, wread, dpc, di, cpc, hashFileErrs >>

\* case <-ctx.Done()
WorkerCtxDone(w) ==
    /\ wpc[w] = "select"
    /\ ctxErr # NilErr
    /\ wpc' = [wpc EXCEPT ![w] = "done"]
    /\ UNCHANGED << mainVars, ctxErr, jobs, jobsClosed, results, resultsClosed, errors,
                    errorsClosed, wjob, wout, wread, dpc, di, cpc, hashFileErrs >>

\* mutant of AfterHashFile: err is not looked at
AfterHashFileUnchecked(out) == "sendResult"

\* where the worker goes with what hashFile returned
AfterHashFile(out) == IF out.err # NilErr THEN "sendError" ELSE "sendResult"

\* hash, err := hashFile(ctx, job), up to its return or its first chunk
WorkerHashFile(w) ==
    /\ wpc[w] = "hashFile"
    /\ LET r == HashFileEntry(ctxErr, wjob[w]) IN
         /\ wout' = [wout EXCEPT ![w] = [hash |-> r.hash, err |-> r.err]]
         /\ wread' = [wread EXCEPT ![w] = << >>]
         /\ wpc' = [wpc EXCEPT ![w] = IF r.loop THEN "read" ELSE AfterHashFile(r)]
         /\ hashFileErrs' = IF r.err # NilErr THEN hashFileErrs \cup { r.err } ELSE hashFileErrs
    /\ UNCHANGED << mainVars, ctxErr, jobs, jobsClosed, results, resultsClosed, errors,
                    errorsClosed, wjob, dpc, di, cpc >>

\* mutant of WorkerReadChunk: the loop reads on without looking at the context
WorkerReadChunkUnchecked(w) ==
    /\ wpc[w] = "read"
    /\ IF Len(wread[w]) < NumChunks(wjob[w])
       THEN /\ wread' = [wread EXCEPT ![w] = Append(@, Content(wjob[w])[Len(@) + 1])]
            /\ UNCHANGED << wout, wpc, hashFileErrs >>
       ELSE /\ wout' = [wout EXCEPT ![w] = [hash |-> Sha256(wread[w]), err |-> NilErr]]
            /\ wpc' = [wpc EXCEPT ![w] = "sendResult"]
            /\ UNCHANGED << wread, hashFileErrs >>
    /\ UNCHANGED << mainVars, ctxErr, jobs, jobsClosed, results, resultsClosed, errors,
                    errorsClosed, wjob, dpc, di, cpc >>

\* one turn of hashFile's chunk loop: the ctx check, data.Read(buffer), hash.Write
WorkerReadChunk(w) ==
    /\ wpc[w] = "read"
    /\ IF ctxErr # NilErr
       THEN /\ wout' = [wout EXCEPT ![w] = [hash |-> << >>, err |-> ctxErr]]
            /\ hashFileErrs' = hashFileErrs \cup { ctxErr }
            /\ wpc' = [wpc EXCEPT ![w] = "sendError"]
            /\ UNCHANGED wread
       ELSE IF Len(wread[w]) < NumChunks(wjob[w])
       THEN /\ wread' = [wread EXCEPT ![w] = Append(@, Content(wjob[w])[Len(@) + 1])]
            /\ UNCHANGED << wout, wpc, hashFileErrs >>
       ELSE \* n = 0, err == io.EOF: break, return hash.Sum(nil), nil
            /\ wout' = [wout EXCEPT ![w] = [hash |-> Sha256(wread[w]), err |-> NilErr]]
            /\ wpc' = [wpc EXCEPT ![w] = "sendResult"]
            /\ UNCHANGED << wread, hashFileErrs >>
    /\ UNCHANGED << mainVars, ctxErr, jobs, jobsClosed, results, resultsClosed, errors,
                    errorsClosed, wjob, dpc, di, cpc >>

\* mutant of WorkerSendError: errors is unbuffered, the send needs the
\* aggregation loop at its select to receive it
WorkerSendErrorUnbuffered(w) ==
    /\ wpc[w] = "sendError"
    /\ mpc = "aggregate"
    /\ errors = << >>
    /\ errors' = Append(errors, wout[w].err)
    /\ wpc' = [wpc EXCEPT ![w] = "cancel"]
    /\ UNCHANGED << mainVars, ctxErr, jobs, jobsClosed, results, resultsClosed,
                    errorsClosed, wjob, wout, wread, dpc, di, cpc, hashFileErrs >>

\* errors <- err
WorkerSendError(w) ==
    /\ wpc[w] = "sendError"
    /\ Len(errors) < Len(files)
    /\ errors' = Append(errors, wout[w].err)
    /\ wpc' = [wpc EXCEPT ![w] = "cancel"]
    /\ UNCHANGED << mainVars, ctxErr, jobs, jobsClosed, results, resultsClosed,
                    errorsClosed, wjob, wout, wread, dpc, di, cpc, hashFileErrs >>

\* the worker's locals job, hash, err and hashFile's hash state, out of scope
NoLocals == [job |-> << >>, out |-> [hash |-> << >>, err |-> NilErr], read |-> << >>]

\* cancel(); return
WorkerCancel(w) ==
    /\ wpc[w] = "cancel"
    /\ ctxErr' = Cancel(ctxErr)
    /\ wpc' = [wpc EXCEPT ![w] = "done"]
    /\ wjob' = [wjob EXCEPT ![w] = NoLocals.job]
    /\ wout' = [wout EXCEPT ![w] = NoLocals.out]
    /\ wread' = [wread EXCEPT ![w] = NoLocals.read]
    /\ UNCHANGED << mainVars, jobs, jobsClosed, results, resultsClosed, errors,
                    errorsClosed, dpc, di, cpc, hashFileErrs >>

\* results <- HashResult{File: job, Hash: hash}
WorkerSendResult(w) ==
    /\ wpc[w] = "sendResult"
    /\ Len(results) < Len(files)
    /\ results' = Append(results, [File |-> wjob[w], Hash |-> wout[w].hash])
    /\ wpc' = [wpc EXCEPT ![w] = "select"]
    /\ wjob' = [wjob EXCEPT ![w] = NoLocals.job]
    /\ wout' = [wout EXCEPT ![w] = NoLocals.out]
    /\ wread' = [wread EXCEPT ![w] = NoLocals.read]
    /\ UNCHANGED << mainVars, ctxErr, jobs, jobsClosed, resultsClosed, errors,
                    errorsClosed, dpc, di, cpc, hashFileErrs >>

----------------------------------------------------------------------------
(* The dispatcher and the channel-closing goroutine *)

\* case jobs <- file
DispatcherSend ==
    /\ dpc = "range"
    /\ di < Len(files)
    /\ Len(jobs) < Len(files)
    /\ jobs' = Append(jobs, At(files, di))
    /\ di' = di + 1
    /\ UNCHANGED << mainVars, ctxErr, jobsClosed, results, resultsClosed, errors,
                    errorsClosed, wpc, wjob, wout, wread, dpc, cpc, hashFileErrs >>

\* case <-ctx.Done(): return, and the deferred close(jobs)
DispatcherCtxDone ==
    /\ dpc = "range"
    /\ di < Len(files)
    /\ ctxErr # NilErr
    /\ jobsClosed' = TRUE
    /\ dpc' = "done"
    /\ UNCHANGED << mainVars, ctxErr, jobs, results, resultsClosed, errors,
                    errorsClosed, wpc, wjob, wout, wread, di, cpc, hashFileErrs >>

\* the range loop is over: the deferred close(jobs)
DispatcherReturn ==
    /\ dpc = "range"
    /\ di = Len(files)
    /\ jobsClosed' = TRUE
    /\ dpc' = "done"
    /\ UNCHANGED << mainVars, ctxErr, jobs, results, resultsClosed, errors,
                    errorsClosed, wpc, wjob, wout, wread, di, cpc, hashFileErrs >>

\* wg.Wait() returns; close(results)
CloserCloseResults ==
    /\ cpc = "wait"
    /\ \A w \in Workers : wpc[w] = "done"
    /\ resultsClosed' = TRUE
    /\ cpc' = "closeErrors"
    /\ UNCHANGED << mainVars, ctxErr, jobs, jobsClosed, results, errors,
                    errorsClosed, wpc, wjob, wout, wread, dpc, di, hashFileErrs >>

\* close(errors)
CloserCloseErrors ==
    /\ cpc = "closeErrors"
    /\ errorsClosed' = TRUE
    /\ cpc' = "done"
    /\ UNCHANGED << mainVars, ctxErr, jobs, jobsClosed, results, resultsClosed, errors,
                    wpc, wjob, wout, wread, dpc, di, hashFileErrs >>

----------------------------------------------------------------------------
(* The aggregation loop of hashFilesWithTimeout, and its returns *)

aggOther == << files, jobs, jobsClosed, wpc, wjob, wout, wread,
               dpc, di, cpc, hashFileErrs, sideVars >>

\* return d, e from hashFilesWithTimeout, after the deferred cancel(); hashFiles
\* and its caller hand both on to main
Return(d, e) ==
    /\ ctxErr' = Cancel(ctxErr)
    /\ MainContinue(d, e)

\* case result, ok := <-results, with ok
AggReceiveResult ==
    /\ mpc = "aggregate"
    /\ receivedResults < Len(files)
    /\ results # << >>
    /\ hashedFiles' = Append(hashedFiles, Head(results))
    /\ receivedResults' = receivedResults + 1
    /\ results' = Tail(results)
    /\ UNCHANGED << aggOther, mpc, ctxErr, resultsClosed, errors, errorsClosed, data, err,
                    builds >>

\* case result, ok := <-results, with !ok
AggResultsClosed ==
    /\ mpc = "aggregate"
    /\ receivedResults < Len(files)
    /\ results = << >> /\ resultsClosed
    /\ Return(<< >>, ErrNotAllProcessed)
    /\ UNCHANGED << aggOther, hashedFiles, receivedResults, results, resultsClosed,
                    errors, errorsClosed >>

\* what err := <-errors yields: the oldest error sent, or nil from the closed channel
ReceivedError(q) == IF q # << >> THEN Head(q) ELSE NilErr

\* case err := <-errors: cancel(); return nil, err
AggReceiveError ==
    /\ mpc = "aggregate"
    /\ receivedResults < Len(files)
    /\ errors # << >> \/ errorsClosed
    /\ errors' = IF errors # << >> THEN Tail(errors) ELSE errors
    /\ Return(<< >>, ReceivedError(errors))
    /\ UNCHANGED << aggOther, hashedFiles, receivedResults, results, resultsClosed,
                    errorsClosed >>

\* mutant of AggCtxDone: the digests collected so far are returned with the error
AggCtxDonePartial ==
    /\ mpc = "aggregate"
    /\ receivedResults < Len(files)
    /\ ctxErr # NilErr
    /\ Return(HashesOf(hashedFiles), ctxErr)
    /\ UNCHANGED << aggOther, hashedFiles, receivedResults, results, resultsClosed,
                    errors, errorsClosed >>

\* case <-ctx.Done(): return nil, ctx.Err()
AggCtxDone ==
    /\ mpc = "aggregate"
    /\ receivedResults < Len(files)
    /\ ctxErr # NilErr
    /\ Return(<< >>, ctxErr)
    /\ UNCHANGED << aggOther, hashedFiles, receivedResults, results, resultsClosed,
                    errors, errorsClosed >>

\* the loop is over: sort.Slice by File, keep the hashes, return data, nil
AggReturnData ==
    /\ mpc = "aggregate"
    /\ ~(receivedResults < Len(files))
    /\ hashedFiles' = SortByFile(hashedFiles)
    /\ Return(HashesOf(hashedFiles'), NilErr)
    /\ UNCHANGED << aggOther, receivedResults, results, resultsClosed, errors, errorsClosed >>

----------------------------------------------------------------------------

Next ==
    \/ HashFilesEmpty
    \/ HashFilesStart
    \/ Timeout
    \/ \E w \in Workers : WorkerTakeJob(w)
    \/ \E w \in Workers : WorkerJobsClosed(w)
    \/ \E w \in Workers : WorkerCtxDone(w)
    \/ \E w \in Workers : WorkerHashFile(w)
    \/ \E w \in Workers : WorkerReadChunk(w)
    \/ \E w \in Workers : WorkerSendError(w)
    \/ \E w \in Workers : WorkerCancel(w)
    \/ \E w \in Workers : WorkerSendResult(w)
    \/ DispatcherSend
    \/ DispatcherCtxDone
    \/ DispatcherReturn
    \/ CloserCloseResults
    \/ CloserCloseErrors
    \/ AggReceiveResult
    \/ AggResultsClosed
    \/ AggReceiveError
    \/ AggCtxDone
    \/ AggReturnData

Spec == Init /\ [][Next]_vars

----------------------------------------------------------------------------
(* The scheduler under the Go runtime's scheduling: while some goroutine that *)
(* hashFilesWithTimeout started can take a step, one of them does.  This is   *)
(* weaker than every runnable goroutine being run.  The deadline and the      *)
(* calling goroutine are under no such condition.                             *)

\* worker w takes a step
WorkerStep(w) ==
    /\ w \in Workers
    /\ \/ WorkerTakeJob(w)
       \/ WorkerJobsClosed(w)
       \/ WorkerCtxDone(w)
       \/ WorkerHashFile(w)
       \/ WorkerReadChunk(w)
       \/ WorkerSendError(w)
       \/ WorkerCancel(w)
       \/ WorkerSendResult(w)

DispatcherStep == DispatcherSend \/ DispatcherCtxDone \/ DispatcherReturn

CloserStep == CloserCloseResults \/ CloserCloseErrors

GoroutineStep ==
    \/ \E w \in Workers : WorkerStep(w)
    \/ DispatcherStep
    \/ CloserStep

\* hashFiles called with paths of a file that is hashed in chunks, over several
\* steps, and of a file that cannot be opened; the files hashed in one step
\* differ from these in their digests only
InitFair ==
    /\ files \in BoundedSeq({ PathAB, PathB }, MaxFiles)
    /\ mpc = "hashFiles"
    /\ jobs = << >> /\ jobsClosed = FALSE
    /\ results = << >> /\ resultsClosed = FALSE
    /\ errors = << >> /\ errorsClosed = FALSE
    /\ ctxErr = NilErr
    /\ wpc = << >> /\ wjob = << >> /\ wout = << >> /\ wread = << >>
    /\ dpc = "idle" /\ di = 0
    /\ cpc = "idle"
    /\ hashedFiles = << >> /\ receivedResults = 0
    /\ data = << >> /\ err = NilErr
    /\ builds = << >>
    /\ hashFileErrs = {}
    /\ args = << >>
    /\ bf = NoFilter /\ bfh = NoHistory
    /\ cpus \in 1..NumCPU

SpecFair == InitFair /\ [][Next]_vars /\ WF_vars(GoroutineStep)

----------------------------------------------------------------------------
(* main, from its command line to the call of hashFiles or its early return *)

ArgPaths == { PathA, PathAB, PathB, PathD, PathE, PathS }

\* len(args) == 0: "No files provided", return
MainNoArgs ==
    /\ mpc = "main"
    /\ Len(args) = 0
    /\ mpc' = "done"
    /\ UNCHANGED << files, goVars, ctxErr, hashedFiles, receivedResults, data, err,
                    builds, sideVars >>

\* what main does with the paths collected, or with the error of collecting them
MainCollected(r) ==
    IF r.err # NilErr
    THEN /\ MainContinue(<< >>, r.err)
         /\ UNCHANGED files
    ELSE /\ files' = r.files
         /\ mpc' = "hashFiles"
         /\ UNCHANGED << data, err, builds >>

\* len(args) > 1: data, err = hashDirectFilePaths(args), up to hashFiles
MainDirect ==
    /\ mpc = "main"
    /\ Len(args) > 1
    /\ MainCollected(DirectFilePaths(args, 1, << >>))
    /\ UNCHANGED << goVars, ctxErr, hashedFiles, receivedResults, sideVars >>

\* len(args) == 1: data, err = hashFilesInDirectory(args[0]), up to hashFiles
MainDirectory ==
    /\ mpc = "main"
    /\ Len(args) = 1
    /\ MainCollected(getAllFilesInDirectory(At(args, 0)))
    /\ UNCHANGED << goVars, ctxErr, hashedFiles, receivedResults, sideVars >>

InitMain ==
    /\ args \in BoundedSeq(ArgPaths, MaxArgs)
    /\ mpc = "main"
    /\ files = << >>
    /\ jobs = << >> /\ jobsClosed = FALSE
    /\ results = << >> /\ resultsClosed = FALSE
    /\ errors = << >> /\ errorsClosed = FALSE
    /\ ctxErr = NilErr
    /\ wpc = << >> /\ wjob = << >> /\ wout = << >> /\ wread = << >>
    /\ dpc = "idle" /\ di = 0
    /\ cpc = "idle"
    /\ hashedFiles = << >> /\ receivedResults = 0
    /\ data = << >> /\ err = NilErr
    /\ builds = << >>
    /\ hashFileErrs = {}
    /\ bf = NoFilter /\ bfh = NoHistory
    /\ cpus \in 1..NumCPU

NextMain ==
    \/ MainNoArgs
    \/ MainDirect
    \/ MainDirectory
    \/ Next

SpecMain == InitMain /\ [][NextMain]_vars

----------------------------------------------------------------------------
(* The builder called directly on in-memory leaves *)

LeafContents == { << Byte(1) >>, << Byte(2) >> }

LastClock == IF builds = << >> THEN 1 ELSE builds[Len(builds)].at

\* tree := buildMerkleTree(data), time.Now() reading t
BuildTree ==
    /\ Len(builds) < MaxBuilds
    /\ \E t \in LastClock..MaxClock :
         builds' = Append(builds, [in |-> data, at |-> t, out |-> buildMerkleTree(data, t)])
    /\ UNCHANGED << schedVars, data, sideVars >>

\* the scheduler is idle; data is an in-memory list of raw byte buffers
InitTree ==
    /\ files = << >>
    /\ mpc = "done"
    /\ jobs = << >> /\ jobsClosed = FALSE
    /\ results = << >> /\ resultsClosed = FALSE
    /\ errors = << >> /\ errorsClosed = FALSE
    /\ ctxErr = NilErr
    /\ wpc = << >> /\ wjob = << >> /\ wout = << >> /\ wread = << >>
    /\ dpc = "idle" /\ di = 0
    /\ cpc = "idle"
    /\ hashedFiles = << >> /\ receivedResults = 0
    /\ data \in BoundedSeq(LeafContents, MaxLeaves)
    /\ err = NilErr
    /\ builds = << >>
    /\ hashFileErrs = {}
    /\ args = << >>
    /\ bf = NoFilter /\ bfh = NoHistory
    /\ cpus = 1

NextTree == BuildTree

SpecTree == InitTree /\ [][NextTree]_vars

----------------------------------------------------------------------------
(* The Bloom filter.  A hash function is known by its seed; an item is a      *)
(* string, known by its number.                                              *)

Items == 1..MaxItem

Seeds == 0..MaxSeed

\* hashFunction.Write([]byte(item)); hashFunction.Sum64(); hashFunction.Reset():
\* the murmur3 digest, a fixed function of the seed and the bytes written; the
\* values here are far below 2^64, where a uint64 wraps
Sum64(seed, item) == 7 * seed + 3 * item + seed * item

\* computeHashes: one index into bitSet for each hash function
computeHashes(f, item) ==
    [i \in 1..f.hashCount |-> Sum64(f.hashFunctions[i], item) % Len(f.bitSet)]

\* the struct NewBloomFilter returns: m_int false bits and k_int hash functions
\* with the seeds drawn, k_int = Len(seeds).  m_int and k_int are the ceilings of
\* floating-point expressions in p and n (in the older version, the arguments)
NewBloomFilter(m_int, seeds) ==
    [bitSet |-> [i \in 1..m_int |-> FALSE], hashFunctions |-> seeds, hashCount |-> Len(seeds)]

\* mutant of SetBits: only the first hash function's bit is set
SetFirstBit(bitSet, hashes) ==
    [i \in 1..Len(bitSet) |-> bitSet[i] \/ (hashes # << >> /\ hashes[1] + 1 = i)]

\* for _, hash := range hashes { bf.bitSet[hash] = true }
SetBits(bitSet, hashes) ==
    [i \in 1..Len(bitSet) |-> bitSet[i] \/ \E j \in DOMAIN hashes : hashes[j] + 1 = i]

\* for _, hash := range hashes { if !bf.bitSet[hash] { return false } }; return true
Contains(f, item) ==
    LET hashes == computeHashes(f, item) IN
    \A j \in DOMAIN hashes : At(f.bitSet, hashes[j])

\* mutant of ClearBits: the loop starts at index 1
ClearBitsFromSecond(bitSet) ==
    [i \in 1..Len(bitSet) |-> IF i = 1 THEN bitSet[i] ELSE FALSE]

\* for i := range bf.bitSet { bf.bitSet[i] = false }
ClearBits(bitSet) == [i \in 1..Len(bitSet) |-> FALSE]

\* bf.Add(item)
Add ==
    /\ \E item \in Items :
         /\ bf' = [bf EXCEPT !.bitSet = SetBits(@, computeHashes(bf, item))]
         /\ bfh' = [bfh EXCEPT !.added = @ \cup { item }, !.cleared = FALSE,
                               !.asked = 0, !.answer = FALSE]
    /\ UNCHANGED << schedVars, data, builds, args, cpus >>

\* bf.Contains(item)
ContainsCall ==
    /\ \E item \in Items :
         bfh' = [bfh EXCEPT !.asked = item, !.answer = Contains(bf, item)]
    /\ UNCHANGED << schedVars, data, builds, args, bf, cpus >>

\* bf.Clear()
Clear ==
    /\ bf' = [bf EXCEPT !.bitSet = ClearBits(@)]
    /\ bfh' = [bfh EXCEPT !.before = @ \cup bfh.added, !.added = {}, !.cleared = TRUE,
                          !.asked = 0, !.answer = FALSE]
    /\ UNCHANGED << schedVars, data, builds, args, cpus >>

\* a filter just constructed, with 1..MaxBits bits and up to MaxHashes hash
\* functions, or with no bit and no hash function (p = 1).  A filter with hash
\* functions and no bit is left out: its Add and Contains divide by zero.
InitBloom ==
    /\ files = << >>
    /\ mpc = "done"
    /\ jobs = << >> /\ jobsClosed = FALSE
    /\ results = << >> /\ resultsClosed = FALSE
    /\ errors = << >> /\ errorsClosed = FALSE
    /\ ctxErr = NilErr
    /\ wpc = << >> /\ wjob = << >> /\ wout = << >> /\ wread = << >>
    /\ dpc = "idle" /\ di = 0
    /\ cpc = "idle"
    /\ hashedFiles = << >> /\ receivedResults = 0
    /\ data = << >> /\ err = NilErr
    /\ builds = << >>
    /\ hashFileErrs = {}
    /\ args = << >>
    /\ \E m_int \in 0..MaxBits, seeds \in BoundedSeq(Seeds, MaxHashes) :
         /\ m_int = 0 => seeds = << >>
         /\ bf = NewBloomFilter(m_int, seeds)
    /\ bfh = NewHistory(bf)
    /\ cpus = 1

NextBloom ==
    \/ Add
    \/ ContainsCall
    \/ Clear

SpecBloom == InitBloom /\ [][NextBloom]_vars

----------------------------------------------------------------------------
(* Properties of the scheduler, checked under Spec *)

\* hashFilesWithTimeout has returned to its caller
Returned == mpc = "done" /\ Len(files) > 0

\* the errors of os.Open, Stat and Read, as against those of the context
IsIOError(e) == e.kind \in { "open: no such file or directory", "is a directory" }

\* what hashFile returns for a path it can read when it is not cancelled
DigestOf(path) ==
    IF Stat(path).size <= LargeLimit THEN Sha256(Content(path)) ELSE Sha256(<< >>)

IsSorted(paths) == \A i, j \in 1..Len(paths) : i < j => ~StrLess(paths[j], paths[i])

\* C1: hashFilesWithTimeout returns a nil error only after its aggregation loop
\* has received len(files) results, and then with one digest per input path,
\* never with fewer and never with an empty list.
C1_NilErrorOnlyWithAllResults ==
    (Returned /\ err = NilErr) =>
        /\ receivedResults = Len(files)
        /\ Len(data) = Len(files)
        /\ data # << >>

\* C2: when hashFilesWithTimeout has collected all len(files) results, the i-th
\* digest it returns is the digest of the i-th path of the sorted path list,
\* whatever the order the workers completed in or the caller listed the paths in.
C2_DigestsFollowSortedPaths ==
    (Returned /\ receivedResults = Len(files)) =>
        /\ IsSorted(files)
        /\ err = NilErr
        /\ Len(data) = Len(files)
        /\ \A i \in 1..Len(files) : data[i] = DigestOf(files[i])

C2_Witness ==
    /\ Returned
    /\ receivedResults = Len(files)
    /\ Len(files) >= 2
    /\ data[1] # data[2]

\* C3: if hashing one of the input paths fails with an I/O error and the
\* deadline does not expire, hashFilesWithTimeout returns that file's I/O error
\* itself, and no digests.
C3_IOErrorIsReturned ==
    (/\ Returned
     /\ ctxErr # DeadlineExceeded
     /\ \E e \in hashFileErrs : IsIOError(e)) =>
        /\ err \in hashFileErrs
        /\ IsIOError(err)
        /\ data = << >>

\* C4: if the deadline expires before all len(files) results have been received
\* and no worker has reported an I/O error, what hashFilesWithTimeout returns is
\* the deadline-exceeded error, with no digests.
C4_DeadlineErrorIsReturned ==
    (/\ Returned
     /\ ctxErr = DeadlineExceeded
     /\ receivedResults < Len(files)
     /\ \A e \in hashFileErrs : ~IsIOError(e)) =>
        /\ err = DeadlineExceeded
        /\ data = << >>

\* C5: if any worker's hashFile call has returned an error, hashFilesWithTimeout
\* does not return a nil error.
C5_WorkerErrorNotSwallowed ==
    (Returned /\ hashFileErrs # {}) => err # NilErr

C5_Witness ==
    /\ Returned
    /\ \E e \in hashFileErrs : IsIOError(e)
    /\ receivedResults > 0
    /\ err # NilErr

\* C6: every return hands back either len(files) digests or none; main builds
\* no tree after an error, and none from fewer digests than input files.
C6_AllOrNothing ==
    mpc = "done" =>
        /\ Len(data) = Len(files) \/ data = << >>
        /\ err # NilErr => data = << >> /\ builds = << >>
        /\ \A k \in DOMAIN builds :
             builds[k].out # NilTree => Len(builds[k].in) = Len(files)

C6_Witness ==
    /\ Returned
    /\ err # NilErr
    /\ receivedResults > 0
    /\ data = << >>
    /\ builds = << >>

----------------------------------------------------------------------------
(* Properties of the tree builder, checked under SpecTree *)

TreeOf(k) == builds[k].out

RootNode(t) == t.heap[t.Root]

LeafDigest(d) == Sha256(d)

\* the nodes of level l + 1 that the pairing of level l has created, in order
ParentAt(t, l, i) == At(t.levels[l + 1], (i - 1) \div 2)

\* C7: for an input of exactly one leaf, the root digest equals the leaf digest
\* of that item: no duplication and no combination step.
C7_SingleLeafRootIsLeaf ==
    \A k \in DOMAIN builds :
        Len(builds[k].in) = 1 =>
            /\ RootNode(TreeOf(k)).Hash = LeafDigest(builds[k].in[1])
            /\ RootNode(TreeOf(k)).Left = NilPtr
            /\ RootNode(TreeOf(k)).Right = NilPtr

\* C8: at every level, the node created at pairing index i (1, 3, 5, ...) has
\* Left = nodes[i], Right = nodes[i-1], and as digest the hash of Left's digest
\* followed by Right's digest and nothing else.
C8_SwappedPairing ==
    \A k \in DOMAIN builds :
        LET t == TreeOf(k) IN
        \A l \in 1..(Len(t.levels) - 1) :
            \A i \in 1..(Len(t.levels[l]) - 1) :
                i % 2 = 1 =>
                    LET parent == t.heap[ParentAt(t, l, i)] IN
                    /\ parent.Left = At(t.levels[l], i)
                    /\ parent.Right = At(t.levels[l], i - 1)
                    /\ parent.Hash =
                         Sha256(t.heap[parent.Left].Hash \o t.heap[parent.Right].Hash)

C8_Witness ==
    \E k \in DOMAIN builds :
        /\ Len(builds[k].in) = 5
        /\ builds[k].in[1] # builds[k].in[2]
        /\ Len(TreeOf(k).levels) = 4

\* the number of nodes level l holds before the duplication rule is applied
FreshCount(k, l) == IF l = 1 THEN Len(builds[k].in) ELSE Len(TreeOf(k).levels[l - 1]) \div 2

\* C9: a level of more than one node with an odd number of nodes is paired
\* with a second reference to its last node appended, so every paired level is
\* even; for 3 leaves the root digest is H(H(L3 ++ L3) ++ H(L2 ++ L1)).
C9_OddLevelDuplicatesLast ==
    \A k \in DOMAIN builds :
        LET t == TreeOf(k)
            in == builds[k].in
        IN
        /\ \A l \in 1..Len(t.levels) :
             LET m == FreshCount(k, l)
                 level == t.levels[l]
             IN  m > 1 =>
                    /\ Len(level) % 2 = 0
                    /\ Len(level) = IF m % 2 = 1 THEN m + 1 ELSE m
                    /\ m % 2 = 1 => At(level, m) = At(level, m - 1)
        /\ Len(in) = 3 =>
             RootNode(t).Hash =
                Sha256(Sha256(LeafDigest(in[3]) \o LeafDigest(in[3]))
                       \o Sha256(LeafDigest(in[2]) \o LeafDigest(in[1])))

C9_Witness ==
    \E k \in DOMAIN builds :
        /\ Len(builds[k].in) = 3
        /\ builds[k].in[1] # builds[k].in[3]
        /\ TreeOf(k).levels[1] = << 1, 2, 3, 3 >>

\* C10: two builds from the same ordered sequence of leaf contents have the
\* same Root.Hash and the same RootHash, whatever their creation times.
C10_RootIsDeterministic ==
    \A j, k \in DOMAIN builds :
        (builds[j].in = builds[k].in /\ TreeOf(j) # NilTree /\ TreeOf(k) # NilTree) =>
            /\ RootNode(TreeOf(j)).Hash = RootNode(TreeOf(k)).Hash
            /\ TreeOf(j).RootHash = TreeOf(k).RootHash

C10_Witness ==
    \E j, k \in DOMAIN builds :
        /\ j # k
        /\ Len(builds[j].in) >= 2
        /\ builds[j].in = builds[k].in
        /\ TreeOf(j).CreatedAt # TreeOf(k).CreatedAt

\* C11: the root digest depends on the order of the leaves: for two distinct
\* contents A and B, the tree built from [A, B] and the tree built from [B, A]
\* have different root digests.
C11_RootDependsOnLeafOrder ==
    \A k \in DOMAIN builds :
        LET in == builds[k].in IN
        (Len(in) = 2 /\ in[1] # in[2]) =>
            LET swapped == buildMerkleTree(<< in[2], in[1] >>, builds[k].at) IN
            /\ RootNode(TreeOf(k)).Hash # RootNode(swapped).Hash
            /\ TreeOf(k).RootHash # swapped.RootHash

C11_Witness ==
    \E k \in DOMAIN builds :
        /\ builds[k].in = << << Byte(1) >>, << Byte(2) >> >>
        /\ RootNode(TreeOf(k)).Hash =
             Sha256(LeafDigest(<< Byte(2) >>) \o LeafDigest(<< Byte(1) >>))

\* C13: buildMerkleTree applied to an empty list of leaves returns nil: it has
\* created no node, its pairing loop was not entered (the loop condition was
\* tested once, on an empty level), and it did not fail.
C13_EmptyInputGivesNil ==
    \A k \in DOMAIN builds :
        Len(builds[k].in) = 0 =>
            LET leaves == LeafNodes(builds[k].in, 0)
                r == BuildLoop(leaves, PadLeaves(<< >>), << >>)
            IN  /\ TreeOf(k) = NilTree
                /\ TreeOf(k).Root = NilPtr
                /\ leaves = << >>
                /\ r.heap = << >>
                /\ r.nodes = << >>
                /\ r.levels = << << >> >>

C13_Witness ==
    \E k \in DOMAIN builds :
        /\ builds[k].in = << >>
        /\ TreeOf(k).Root = NilPtr
        /\ TreeOf(k).FileCount = 0

----------------------------------------------------------------------------
(* Further properties of the scheduler, checked under Spec *)

\* no goroutine of hashFilesWithTimeout was ever started
NothingStarted ==
    /\ wpc = << >> /\ dpc = "idle" /\ cpc = "idle"
    /\ jobs = << >> /\ results = << >> /\ errors = << >>
    /\ ctxErr = NilErr

\* hashFiles with zero paths: the error, and no worker
ZeroPathsRejected ==
    (mpc = "done" /\ Len(files) = 0) =>
        /\ err = ErrNoFiles
        /\ data = << >>
        /\ NothingStarted

\* C12: called with zero paths, the scheduler returns the error "no files
\* provided" without starting any worker; and no call of the scheduler returns
\* an empty success, a nil error with an empty digest list.
C12_NoEmptySuccess ==
    /\ ZeroPathsRejected
    /\ mpc = "done" => ~(err = NilErr /\ data = << >>)

\* the HashResults that workers have sent so far and that still exist
SentResults == { results[i] : i \in DOMAIN results } \cup { hashedFiles[i] : i \in DOMAIN hashedFiles }

\* C19: hashFile returns the digest of the file's entire content for every
\* regular file, whatever its size class; two files with different contents
\* never receive the same digest.
C19_DigestOfEntireContent ==
    /\ \A r \in SentResults : r.Hash = Sha256(Content(r.File))
    /\ \A r, q \in SentResults :
         Content(r.File) # Content(q.File) => r.Hash # q.Hash

\* how many elements of seq are x, or have x in field File
Count(seq, x) == Cardinality({ i \in DOMAIN seq : seq[i] = x })

CountFile(seq, x) == Cardinality({ i \in DOMAIN seq : seq[i].File = x })

\* every path that is anywhere in the run
PathsInRun ==
    { files[i] : i \in DOMAIN files } \cup { jobs[i] : i \in DOMAIN jobs }
        \cup { wjob[w] : w \in Workers } \cup { r.File : r \in SentResults }

\* the workers that hold a job whose outcome they have not sent yet
Holding == { w \in Workers : wpc[w] \in { "hashFile", "read", "sendError", "sendResult" } }

\* C20: each dispatched path is taken by at most one worker and produces at most
\* one outcome (a HashResult or an error), and each HashResult is received by the
\* aggregation loop at most once; in a run that collects all results, each input
\* path's HashResult is aggregated exactly once.
C20_EachPathAtMostOnce ==
    /\ \A p \in PathsInRun :
         Count(jobs, p) + Cardinality({ w \in Holding : wjob[w] = p })
             + CountFile(results, p) + CountFile(hashedFiles, p)
           <= Count(SubSeq(files, 1, di), p)
    /\ Len(jobs) + Cardinality(Holding) + Len(results) + Len(hashedFiles) + Len(errors) <= di
    /\ receivedResults = Len(hashedFiles)
    /\ (Returned /\ receivedResults = Len(files)) =>
         /\ \A p \in PathsInRun : CountFile(hashedFiles, p) = Count(files, p)
         /\ results = << >>

C20_Witness ==
    /\ Returned
    /\ receivedResults = Len(files)
    /\ Len(hashedFiles) = 2
    /\ hashedFiles[1].File = hashedFiles[2].File

\* C18: once the cancellation signal has fired (deadline expiry, a worker's
\* cancel after an error, or the aggregator's own cancel), no worker takes
\* another path from the jobs queue and the dispatcher enqueues no further path.
C18_NoNewWorkAfterCancel ==
    [][ctxErr # NilErr =>
          /\ di' = di
          /\ \A w \in Workers : ~(wpc[w] = "select" /\ wpc'[w] = "hashFile")]_vars

----------------------------------------------------------------------------
(* Properties of main's collection of paths, checked under SpecMain *)

\* main has called hashDirectFilePaths(args) and the call is past its loop
DirectMode == Len(args) > 1 /\ mpc # "main"

IsDirectory(path) == Stat(path).exists /\ Stat(path).isDir

HasDirectory(list) == \E i \in DOMAIN list : IsDirectory(list[i])

\* the call was rejected: nothing was expanded, handed to hashFiles or dispatched
Rejected ==
    /\ mpc = "done"
    /\ err # NilErr
    /\ files = << >>
    /\ data = << >>
    /\ builds = << >>
    /\ hashFileErrs = {}
    /\ NothingStarted

\* C14 as stated: if any path of the list is a directory, whatever its position,
\* hashDirectFilePaths rejects the whole call with the error "cannot hash
\* directories along with filepaths", expands nothing and dispatches nothing.
C14_DirectoryRejectedAnywhere ==
    (DirectMode /\ HasDirectory(args)) =>
        /\ Rejected
        /\ err = ErrDirectories

\* the positions of the list that os.Stat fails on
StatFails(list) == { i \in DOMAIN list : ~Stat(list[i]).exists }

Directories(list) == { i \in DOMAIN list : IsDirectory(list[i]) }

Least(S) == CHOOSE i \in S : \A j \in S : i <= j

\* C14, amended: if any path of the list is a directory, hashDirectFilePaths
\* rejects the whole call, expands nothing and dispatches nothing; the error is
\* "cannot hash directories along with filepaths" when os.Stat succeeds on every
\* path before the first directory, and otherwise the os.Stat error of the first
\* path it fails on.
C14_DirectoryRejectedWithFirstError ==
    (DirectMode /\ HasDirectory(args)) =>
        /\ Rejected
        /\ LET d == Least(Directories(args))
               f == { i \in StatFails(args) : i < d }
           IN  err = IF f = {} THEN ErrDirectories ELSE ErrStat(args[Least(f)])

C14_Witness ==
    /\ DirectMode
    /\ Len(args) = 2
    /\ Stat(args[1]).exists /\ ~IsDirectory(args[1])
    /\ IsDirectory(args[2])
    /\ err = ErrDirectories
    /\ Rejected

\* reading directory dir, or a directory below it, fails
RECURSIVE ReadFailsUnder(_)
ReadFailsUnder(dir) ==
    \/ ReadDir(dir).err # NilErr
    \/ \E i \in DOMAIN ReadDir(dir).names :
          LET sub == Join(dir, ReadDir(dir).names[i]) IN
          IsDirectory(sub) /\ ReadFailsUnder(sub)

IsReadDirError(e) ==
    e.kind \in { "open: permission denied", "readdirent: not a directory",
                 "open: no such file or directory" }

\* C15: getAllFilesInDirectory is fail-fast: if reading a directory fails at any
\* depth of the recursion, the top-level call returns that error and a nil list,
\* never the files enumerated before the failure; nothing is hashed.
C15_ListingFailsFast ==
    (Len(args) = 1 /\ mpc # "main" /\ ReadFailsUnder(args[1])) =>
        /\ getAllFilesInDirectory(args[1]).files = << >>
        /\ getAllFilesInDirectory(args[1]).err = err
        /\ IsReadDirError(err)
        /\ Rejected

C15_Witness ==
    /\ args = << PathE >>
    /\ ReadDir(PathE).err = NilErr
    /\ ~IsDirectory(Join(PathE, ReadDir(PathE).names[1]))
    /\ err = ErrPermission(Abs(Join(PathE, ReadDir(PathE).names[2])))
    /\ Rejected

----------------------------------------------------------------------------
(* Properties of the Bloom filter, checked under SpecBloom *)

\* C16: a Bloom filter has no false negatives: after any sequence of Add calls
\* with no Clear since, Contains returns true for every item that was added,
\* whatever other items were added before or after it.
C16_NoFalseNegatives ==
    /\ \A item \in bfh.added : Contains(bf, item)
    /\ bfh.asked \in bfh.added => bfh.answer

C16_Witness ==
    /\ Cardinality(bfh.added) >= 2
    /\ bfh.asked \in bfh.added
    /\ bfh.answer
    /\ bf.hashCount = 2
    /\ \E i \in DOMAIN bf.bitSet : ~bf.bitSet[i]

----------------------------------------------------------------------------
(* Further properties of the tree builder, checked under SpecTree *)

\* the child slots of tree t that point to node p: (parent, side) pairs
ChildSlots(t, p) ==
    { << q, "Left" >> : q \in { x \in DOMAIN t.heap : t.heap[x].Left = p } }
        \cup { << q, "Right" >> : q \in { x \in DOMAIN t.heap : t.heap[x].Right = p } }

\* C21: the tree returned by buildMerkleTree has no sharing, for every input
\* size: every node is referenced by at most one child slot in the whole tree.
C21_NoSharing ==
    \A k \in DOMAIN builds :
        \A p \in DOMAIN TreeOf(k).heap : Cardinality(ChildSlots(TreeOf(k), p)) <= 1

\* the leaf nodes of build k: those of the first loop, one per input item
LeavesOf(k) == 1..Len(builds[k].in)

\* C22: in every tree returned for an input of at least one leaf, each leaf
\* node has neither a left nor a right child and each non-leaf node has both:
\* no node has exactly one child.
C22_NoSingleChild ==
    \A k \in DOMAIN builds :
        Len(builds[k].in) >= 1 =>
            LET t == TreeOf(k) IN
            /\ t # NilTree
            /\ \A p \in LeavesOf(k) :
                 t.heap[p].Left = NilPtr /\ t.heap[p].Right = NilPtr
            /\ \A p \in DOMAIN t.heap \ LeavesOf(k) :
                 /\ t.heap[p].Left \in DOMAIN t.heap
                 /\ t.heap[p].Right \in DOMAIN t.heap

C22_Witness ==
    \E k \in DOMAIN builds :
        /\ Len(builds[k].in) = 5
        /\ Len(TreeOf(k).heap) = 5 + 3 + 2 + 1
        /\ RootNode(TreeOf(k)).Left # NilPtr
        /\ RootNode(TreeOf(k)).Right # NilPtr

\* the nodes of t reachable from node p by child pointers, p included
RECURSIVE Below(_, _)
Below(t, p) ==
    IF p = NilPtr THEN {}
    ELSE { p } \cup Below(t, t.heap[p].Left) \cup Below(t, t.heap[p].Right)

\* the byte string bytes is, or was computed by hashing from, digest
RECURSIVE Mentions(_, _)
Mentions(bytes, digest) ==
    \/ bytes = digest
    \/ \E j \in DOMAIN bytes :
          /\ bytes[j].t = "sha256"
          /\ << bytes[j] >> = digest \/ Mentions(bytes[j].v, digest)

\* C23: for every input of n >= 1 leaves the pairing loop ends, with exactly one
\* node left, the root; every level that is paired holds an even number of
\* nodes, every node of it is a child of a node of the next level, and every
\* leaf contributes to the root digest.
C23_LoopEndsWithOneRoot ==
    \A k \in DOMAIN builds :
        Len(builds[k].in) >= 1 =>
            LET t == TreeOf(k)
                last == Len(t.levels)
            IN
            /\ t # NilTree
            /\ last <= Len(builds[k].in) + 1
            /\ t.levels[last] = << t.Root >>
            /\ \A l \in 1..(last - 1) :
                 /\ Len(t.levels[l]) > 1
                 /\ Len(t.levels[l]) % 2 = 0
                 /\ \A i \in 0..(Len(t.levels[l]) - 1) :
                      \E j \in 0..(Len(t.levels[l + 1]) - 1) :
                          LET parent == t.heap[At(t.levels[l + 1], j)] IN
                          parent.Left = At(t.levels[l], i) \/ parent.Right = At(t.levels[l], i)
            /\ \A p \in LeavesOf(k) :
                 /\ p \in Below(t, t.Root)
                 /\ Mentions(RootNode(t).Hash, LeafDigest(builds[k].in[p]))

C23_Witness ==
    \E k \in DOMAIN builds :
        /\ Len(builds[k].in) = 5
        /\ Len(TreeOf(k).levels) = 4
        /\ Len(TreeOf(k).levels[2]) = 4
        /\ 5 \in Below(TreeOf(k), TreeOf(k).Root)

----------------------------------------------------------------------------
(* Properties of the worker pool, checked under Spec *)

\* the workers inside a hashFile call
Hashing == { w \in Workers : wpc[w] \in { "hashFile", "read" } }

\* C24: hashFilesWithTimeout starts exactly min(len(files), number of CPUs)
\* workers, at least one, and at no point of the run are more than that many
\* files being hashed at the same time.
C24_WorkerCount ==
    (mpc # "hashFiles" /\ Len(files) > 0) =>
        /\ Len(wpc) = IF Len(files) <= cpus THEN Len(files) ELSE cpus
        /\ Len(wpc) >= 1
        /\ Cardinality(Hashing) <= Len(files)
        /\ Cardinality(Hashing) <= cpus

C24_Witness ==
    /\ Len(files) = 2
    /\ cpus = 1
    /\ Cardinality(Hashing) = 1
    /\ jobs # << >>

\* C25: while hashing a file in chunks, hashFile checks the cancellation signal
\* before every chunk read: once the signal has fired, the loop reads no further
\* chunk and hashFile returns the context's error and no digest, so the worker
\* goes on to send the error, never a HashResult.
C25_ChunkLoopStopsOnCancel ==
    [][\A w \in Workers :
          (wpc[w] = "read" /\ ctxErr # NilErr) =>
              /\ wread'[w] = wread[w]
              /\ wpc'[w] \in { "read", "sendError" }
              /\ wpc'[w] = "sendError" => wout'[w] = [hash |-> << >>, err |-> ctxErr]]_vars

C25_Witness ==
    \E w \in Workers :
        /\ wpc[w] = "sendError"
        /\ wread[w] # << >>
        /\ Len(wread[w]) < NumChunks(wjob[w])
        /\ wout[w] = [hash |-> << >>, err |-> DeadlineExceeded]

----------------------------------------------------------------------------
(* Properties of the goroutines' termination, checked under SpecFair *)

\* every goroutine at a channel send finds room in the buffer
NoSendBlocks ==
    /\ Len(jobs) <= Len(files) /\ Len(results) <= Len(files) /\ Len(errors) <= Len(files)
    /\ Len(results) + Cardinality({ w \in Workers : wpc[w] = "sendResult" }) <= Len(files)
    /\ Len(errors) + Cardinality({ w \in Workers : wpc[w] = "sendError" }) <= Len(files)
    /\ (dpc = "range" /\ di < Len(files)) => Len(jobs) < Len(files)

\* every worker, the dispatcher and the channel-closing goroutine have returned
Terminated ==
    /\ \A w \in Workers : wpc[w] = "done"
    /\ dpc = "done"
    /\ cpc = "done"

\* C26: no send in the scheduler can block: jobs, results and errors never hold
\* more than len(files) items and every sender finds room; so after
\* hashFilesWithTimeout has returned, for whatever reason, every worker, the
\* dispatcher and the channel-closing goroutine eventually terminate.
C26_NoGoroutineLeftBlocked ==
    /\ []NoSendBlocks
    /\ Returned ~> Terminated

C26_Witness ==
    /\ Returned
    /\ Terminated
    /\ err = DeadlineExceeded
    /\ errors # << >>
    /\ results # << >>

====
